---- MODULE Spec2Model ----
(***************************************************************************)
(* agent-collab: the task dependency scheduler (TaskManager.               *)
(* sort_tasks_by_dependencies), the dispatcher (assign_tasks,              *)
(* send_task_to_agent, check_and_assign_waiting_tasks), the completion     *)
(* poller (update_task_status, wait_for_all_tasks_completion), the         *)
(* monitoring loop of ComposerAgent.assign_and_monitor_tasks and the       *)
(* worker's task executor (SubAgent.execute_task).                         *)
(*                                                                         *)
(* A task is identified by its position in self.tasks: parse_tasks_markdown*)
(* gives the n-th task the id "task_<n>", so the id of tasks[i] is i.      *)
(***************************************************************************)
EXTENDS Integers, Sequences, FiniteSets, TLC

VARIABLES
    content,        \* the task lines of docs/tasks.md
    agent_processes,\* ComposerAgent.agent_processes: name -> the process started for it
    processes,      \* the worker processes started so far: process -> its state
    tasks,          \* TaskManager.tasks: the task records, in file order
    task_result,    \* task["result"] of every task, NoResult until a result is stored
    task_status,    \* TaskManager.task_status: task id -> status, tracked ids only
    sorted_tasks,   \* the local sorted_tasks of assign_tasks (task ids)
    agents,         \* ComposerAgent.agents: registered name -> last known status
    pc,             \* where the orchestrator's single control flow stands
    stack,          \* the active loops of assign_tasks / check_and_assign_waiting_tasks;
                    \* ready (history): what a re-scan was due to send when the
                    \* loop's task was completed
    request,        \* the POST /task the dispatcher is awaiting, or NoRequest
    response,       \* the answer to that POST, once the worker has produced it
    executing,      \* execute_task handlers running at the workers
    worker_status,  \* SubAgent.status of every worker
    current_task,   \* SubAgent.current_task of every worker
    task_results,   \* SubAgent.task_results of every worker (the result log)
    posted,         \* history: how many POST /task requests were sent per task
    skipped,        \* history: tasks the top-level pass logged as waiting
    was_completed,  \* history: tasks whose tracked status has been completed
    acked,          \* history: tasks whose POST got a 200 that was not terminal
    rejected,       \* history: tasks whose POST got a status other than 200
    unanswered,     \* history: tasks for which a GET of update_task_status failed
    faults          \* history: how many submissions were not answered 200 completed

vars == << content, agent_processes, processes, tasks, task_result, task_status,
           sorted_tasks, agents, pc, stack, request, response, executing,
           worker_status, current_task, task_results, posted, skipped,
           was_completed, acked, rejected, unanswered, faults >>

\* What is set up before the tasks are assigned, and the poller's history.
setup == << content, agent_processes, processes >>

None == "None"                 \* the status read for an id without an entry
NoResult == << >>              \* task["result"] = None
NoTask == 0                    \* SubAgent.current_task = None
NoRequest == [stage |-> "none"]
NoResponse == [code |-> 0]
NoContent == << >>             \* a tasks.md whose text plays no part in the session

----------------------------------------------------------------------------
(* Bounds and input sets *)

MaxTasks == 3        \* longest task list of the dispatch specification
MaxSortTasks == 3    \* longest task list of the scheduler specification
MaxFaults == 1       \* most submissions of a session that end otherwise than 200 completed
MaxLevelTasks == 4   \* longest task list of the scheduler specification with distinct titles
MaxPollTasks == 2    \* longest task list of the poller specification
MaxLog == 2          \* longest result log a worker starts the poller specification with
MaxOrchTasks == 2    \* longest task list of the orchestration specification
MaxLines == 1        \* most task lines of a tasks.md of the parser specification
MaxDeps == 2         \* most titles of a Dependencies field of the parser specification

Titles == {"A", "B", "C"}
Priorities == {1, 2}
Registered == {"developer", "qa"}     \* the workers spawn_sub_agents registered

\* The dependency lists a task line may carry; "ghost" matches no task.
DepLists == { <<>>, <<"A">>, <<"A", "B">>, <<"C", "ghost">> }

SortPool == [title : Titles, dependencies : DepLists,
             priority : Priorities, agent : {"developer"}]

Task(t, d, p, a) == [title |-> t, dependencies |-> d, priority |-> p, agent |-> a]

\* The task lines of the dispatch specification.
TaskPool == { Task("A", <<>>, 2, "developer"),
              Task("A", <<"C">>, 1, "developer"),
              Task("B", <<"A">>, 1, "qa"),
              Task("B", <<>>, 1, "qa"),
              Task("B", <<"ghost">>, 2, "nobody"),
              Task("C", <<"A", "B">>, 1, "developer"),
              Task("C", <<"ghost">>, 2, "qa") }

ListsOver(pool, n) == UNION { [1..k -> pool] : k \in 0..n }

\* Task lists with distinct titles: the i-th task line carries the i-th title.
LevelTitles == << "A", "B", "C", "D", "E", "F" >>
LevelPriorities == {1, 2, 3}
LevelDeps == { <<>>, <<"A">>, <<"A", "B">> }
LevelLines == [dependencies : LevelDeps, priority : LevelPriorities]
LevelLists ==
    { [i \in 1..Len(ls) |-> Task(LevelTitles[i], ls[i].dependencies,
                                  ls[i].priority, "developer")] :
        ls \in ListsOver(LevelLines, MaxLevelTasks) }

----------------------------------------------------------------------------
(* Helpers over task lists *)

Ids(ts) == 1..Len(ts)

TitleSet(ts) == { ts[i].title : i \in Ids(ts) }

Min(S) == CHOOSE x \in S : \A y \in S : x <= y
Max(S) == CHOOSE x \in S : \A y \in S : y <= x

\* next((t for t in self.tasks if t["title"] == dep), None): the first match, 0 if none
FirstWithTitle(ts, t) ==
    LET m == { i \in Ids(ts) : ts[i].title = t }
    IN IF m = {} THEN 0 ELSE Min(m)

\* task_map = {task["title"]: task for task in self.tasks}: the last one wins
TaskMap(ts, t) == Max({ i \in Ids(ts) : ts[i].title = t })

RECURSIVE SortedSeq(_)
SortedSeq(S) == IF S = {} THEN <<>> ELSE <<Min(S)>> \o SortedSeq(S \ {Min(S)})

\* The keys of in_degree in insertion order: each title where it first occurs.
TitleKeys(ts) ==
    LET firsts == { i \in Ids(ts) : \A j \in 1..(i - 1) : ts[j].title # ts[i].title }
        order == SortedSeq(firsts)
    IN [k \in 1..Len(order) |-> ts[order[k]].title]

----------------------------------------------------------------------------
(* sort_tasks_by_dependencies *)

RECURSIVE DepEdges(_, _)
\* The (dep, task_title) pairs the graph-building loop adds, in its order.
DepEdges(ts, i) ==
    IF i > Len(ts) THEN <<>>
    ELSE LET t == ts[i]
             mine == [k \in 1..Len(t.dependencies) |-> <<t.dependencies[k], t.title>>]
         IN SelectSeq(mine, LAMBDA e : e[1] \in TitleSet(ts)) \o DepEdges(ts, i + 1)

Graph(ts) ==
    [d \in TitleSet(ts) |->
        LET es == SelectSeq(DepEdges(ts, 1), LAMBDA e : e[1] = d)
        IN [k \in 1..Len(es) |-> es[k][2]]]

InDegree(ts) ==
    [t \in TitleSet(ts) |-> Len(SelectSeq(DepEdges(ts, 1), LAMBDA e : e[2] = t))]

\* (mutation of InitialQueue: the in-degree test is dropped)
InitialQueueUnchecked(ts) == TitleKeys(ts)

\* queue: the titles with in-degree zero, in the key order of in_degree
InitialQueue(ts) == SelectSeq(TitleKeys(ts), LAMBDA t : InDegree(ts)[t] = 0)

PriorityOf(ts, t) == ts[TaskMap(ts, t)].priority

\* (mutation of InsertByPriority: x is put before the keys equal to its own)
InsertBeforeEqual(ts, s, x) ==
    LET k == Cardinality({ j \in 1..Len(s) : PriorityOf(ts, s[j]) < PriorityOf(ts, x) })
    IN SubSeq(s, 1, k) \o <<x>> \o SubSeq(s, k + 1, Len(s))

\* Where list.sort puts x among the sorted s: after every key that is <= its own.
InsertByPriority(ts, s, x) ==
    LET k == Cardinality({ j \in 1..Len(s) : PriorityOf(ts, s[j]) <= PriorityOf(ts, x) })
    IN SubSeq(s, 1, k) \o <<x>> \o SubSeq(s, k + 1, Len(s))

\* F applied to the value of v, which is worked out once.
With(v, F(_)) == CHOOSE r \in { F(x) : x \in {v} } : TRUE

RECURSIVE SortQueue(_, _)
\* queue.sort(key=lambda x: task_map[x]["priority"]): stable, ascending
SortQueue(ts, q) ==
    IF q = <<>> THEN <<>>
    ELSE With(SortQueue(ts, SubSeq(q, 1, Len(q) - 1)),
              LAMBDA s : InsertByPriority(ts, s, q[Len(q)]))

RECURSIVE RelaxBelowZero(_, _, _)
\* (mutation of Relax: a neighbor is enqueued when its in-degree is below zero)
RelaxBelowZero(ns, deg, q) ==
    IF ns = <<>> THEN [in_degree |-> deg, queue |-> q]
    ELSE With([deg EXCEPT ![Head(ns)] = @ - 1],
              LAMBDA d : RelaxBelowZero(Tail(ns), d,
                               IF d[Head(ns)] < 0 THEN Append(q, Head(ns)) ELSE q))

RECURSIVE Relax(_, _, _)
\* for neighbor in graph[current]: in_degree[neighbor] -= 1; enqueue it at zero
Relax(ns, deg, q) ==
    IF ns = <<>> THEN [in_degree |-> deg, queue |-> q]
    ELSE With([deg EXCEPT ![Head(ns)] = @ - 1],
              LAMBDA d : Relax(Tail(ns), d,
                               IF d[Head(ns)] = 0 THEN Append(q, Head(ns)) ELSE q))

\* (mutation of PopFirst: the neighbors of the popped title are not relaxed)
PopFirstNoRelax(ts, st, q) ==
    [in_degree |-> st.in_degree, queue |-> Tail(q),
     sorted |-> Append(st.sorted, TaskMap(ts, Head(q)))]

\* The rest of an iteration of `while queue`, q being the sorted queue.
PopFirst(ts, st, q) ==
    With(Relax(Graph(ts)[Head(q)], st.in_degree, Tail(q)),
         LAMBDA r : [in_degree |-> r.in_degree, queue |-> r.queue,
                     sorted |-> Append(st.sorted, TaskMap(ts, Head(q)))])

\* One iteration of `while queue`.
KahnStep(ts, st) == With(SortQueue(ts, st.queue), LAMBDA q : PopFirst(ts, st, q))

RECURSIVE KahnLoop(_, _)
KahnLoop(ts, st) ==
    IF st.queue = <<>> THEN st.sorted
    ELSE With(KahnStep(ts, st), LAMBDA next : KahnLoop(ts, next))

SortTasksByDependencies(ts) ==
    KahnLoop(ts, [in_degree |-> InDegree(ts), queue |-> InitialQueue(ts), sorted |-> <<>>])

----------------------------------------------------------------------------
(* Specification of the scheduler alone *)

\* A TaskManager that has assigned nothing yet, and the workers as they start.
Fresh ==
    /\ task_status = << >>
    /\ sorted_tasks = << >>
    /\ stack = << >>
    /\ request = NoRequest
    /\ response = NoResponse
    /\ executing = {}
    /\ worker_status = [a \in Registered |-> "idle"]
    /\ current_task = [a \in Registered |-> NoTask]
    /\ task_results = [a \in Registered |-> << >>]
    /\ posted = [i \in Ids(tasks) |-> 0]
    /\ skipped = {}
    /\ was_completed = {}
    /\ acked = {}
    /\ rejected = {}
    /\ unanswered = {}
    /\ faults = 0

\* The state in which assign_and_monitor_tasks has loaded the tasks: the
\* workers are spawned and ready.
Quiet ==
    /\ Fresh
    /\ content = NoContent
    /\ agents = [a \in Registered |-> "ready"]
    /\ agent_processes = [a \in Registered |-> a]
    /\ processes = [a \in Registered |-> "running"]
    /\ pc = "start"

InitSort ==
    /\ tasks \in ListsOver(SortPool, MaxSortTasks)
    /\ task_result = [i \in Ids(tasks) |-> NoResult]
    /\ Quiet

SortTasks ==
    /\ pc = "start"
    /\ sorted_tasks' = SortTasksByDependencies(tasks)
    /\ pc' = "sorted"
    /\ UNCHANGED << setup, unanswered >>
    /\ UNCHANGED << tasks, task_result, task_status, agents, stack, request, response,
                    executing, worker_status, current_task, task_results, posted,
                    skipped, was_completed, acked, rejected, faults >>

NextSort == SortTasks

SpecSort == InitSort /\ [][NextSort]_vars

\* The scheduler iteration by iteration: the locals of
\* sort_tasks_by_dependencies are a frame of the stack; entered (history) holds
\* the titles in the order in which they were put into the queue.
SortFrame(st, entered) ==
    [fn |-> "sort", in_degree |-> st.in_degree, queue |-> st.queue,
     sorted |-> st.sorted, entered |-> entered]

\* The lines before `while queue`
SortBegin ==
    /\ pc = "start"
    /\ stack' = << SortFrame([in_degree |-> InDegree(tasks),
                              queue |-> InitialQueue(tasks), sorted |-> << >>],
                             InitialQueue(tasks)) >>
    /\ pc' = "kahn"
    /\ UNCHANGED << setup, unanswered >>
    /\ UNCHANGED << tasks, task_result, task_status, sorted_tasks, agents, request,
                    response, executing, worker_status, current_task, task_results,
                    posted, skipped, was_completed, acked, rejected, faults >>

\* One iteration of `while queue`; the titles it appends to the queue are the
\* ones behind what was left of the queue.
KahnIterate ==
    /\ pc = "kahn" /\ stack[1].queue # << >>
    /\ LET next == KahnStep(tasks, stack[1])
       IN stack' = << SortFrame(next,
                         stack[1].entered
                             \o SubSeq(next.queue, Len(stack[1].queue), Len(next.queue))) >>
    /\ UNCHANGED << setup, unanswered >>
    /\ UNCHANGED << tasks, task_result, task_status, sorted_tasks, agents, pc, request,
                    response, executing, worker_status, current_task, task_results,
                    posted, skipped, was_completed, acked, rejected, faults >>

\* return sorted_tasks
SortReturn ==
    /\ pc = "kahn" /\ stack[1].queue = << >>
    /\ sorted_tasks' = stack[1].sorted
    /\ stack' = << >>
    /\ pc' = "sorted"
    /\ UNCHANGED << setup, unanswered >>
    /\ UNCHANGED << tasks, task_result, task_status, agents, request,
                    response, executing, worker_status, current_task, task_results,
                    posted, skipped, was_completed, acked, rejected, faults >>

NextKahn ==
    \/ SortBegin
    \/ KahnIterate
    \/ SortReturn

SpecKahn == InitSort /\ [][NextKahn]_vars

\* The scheduler on task lists with distinct titles and three priorities.
InitLevels ==
    /\ tasks \in LevelLists
    /\ task_result = [i \in Ids(tasks) |-> NoResult]
    /\ Quiet

SpecLevels == InitLevels /\ [][NextSort]_vars

----------------------------------------------------------------------------
(* TaskManager: the tracked statuses *)

Statuses == {"not_started", "assigned", "in_progress", "completed", "failed"}

\* self.task_status.get(id, {}).get("status"): None for an id without an entry
StatusGet(st, i) == IF i \in DOMAIN st THEN st[i] ELSE None

\* self.task_status.get(id, {}).get("status", "not_started")
StatusOrNotStarted(st, i) == IF i \in DOMAIN st THEN st[i] ELSE "not_started"

\* (mutation of DepStatus: a dependency without a status entry counts as completed)
DepStatusLenient(st, i) == IF i \in DOMAIN st THEN st[i] ELSE "completed"

\* dep_status of can_assign_task
DepStatus(st, i) == StatusOrNotStarted(st, i)

\* status of get_task_status_summary: task_status.get("status", "not_started")
SummaryStatus(st, i) == StatusOrNotStarted(st, i)

RECURSIVE CanAssignFrom(_, _, _, _)
\* The loop of can_assign_task from the k-th dependency on.
CanAssignFrom(ts, st, deps, k) ==
    IF k > Len(deps) THEN TRUE
    ELSE LET dep_task == FirstWithTitle(ts, deps[k])
         IN IF dep_task = 0 THEN CanAssignFrom(ts, st, deps, k + 1)
            ELSE IF DepStatus(st, dep_task) # "completed" THEN FALSE
            ELSE CanAssignFrom(ts, st, deps, k + 1)

\* (mutation of CanAssignTask: the dependencies are not looked at)
CanAssignTaskAlways(ts, st, task) == TRUE

CanAssignTask(ts, st, task) == CanAssignFrom(ts, st, task.dependencies, 1)

RECURSIVE AllCompletedFrom(_, _)
\* The loop of all_tasks_completed over the entries keys.
AllCompletedFrom(st, keys) ==
    IF keys = <<>> THEN TRUE
    ELSE IF st[Head(keys)] # "completed" THEN FALSE
    ELSE AllCompletedFrom(st, Tail(keys))

\* (mutation of AllTasksCompleted: only the first entry is looked at)
AllTasksCompletedFirst(st) ==
    IF DOMAIN st = {} THEN TRUE ELSE st[Min(DOMAIN st)] = "completed"

AllTasksCompleted(st) == AllCompletedFrom(st, SortedSeq(DOMAIN st))

\* (mutation of Tally: an assigned task is counted as not_started)
TallyAssignedAsNotStarted(summary, status) ==
    IF status = "completed" THEN [summary EXCEPT !.completed = @ + 1]
    ELSE IF status = "in_progress" THEN [summary EXCEPT !.in_progress = @ + 1]
    ELSE IF status \in {"not_started", "assigned"}
         THEN [summary EXCEPT !.not_started = @ + 1]
    ELSE IF status = "failed" THEN [summary EXCEPT !.failed = @ + 1]
    ELSE summary

\* The if/elif chain of get_task_status_summary: one of the four counts, or none.
Tally(summary, status) ==
    IF status = "completed" THEN [summary EXCEPT !.completed = @ + 1]
    ELSE IF status = "in_progress" THEN [summary EXCEPT !.in_progress = @ + 1]
    ELSE IF status = "not_started" THEN [summary EXCEPT !.not_started = @ + 1]
    ELSE IF status = "failed" THEN [summary EXCEPT !.failed = @ + 1]
    ELSE summary

RECURSIVE SummaryFrom(_, _, _, _, _)
\* The loop of get_task_status_summary from the i-th task on.
SummaryFrom(ts, st, res, i, summary) ==
    IF i > Len(ts) THEN summary
    ELSE With(Tally(summary, SummaryStatus(st, i)),
              LAMBDA counted :
                  SummaryFrom(ts, st, res, i + 1,
                      [counted EXCEPT !.tasks =
                          Append(@, [id |-> i, title |-> ts[i].title,
                                     agent |-> ts[i].agent,
                                     status |-> SummaryStatus(st, i),
                                     result |-> res[i]])]))

\* get_task_status_summary over the tasks ts, the status map st and the results res
GetTaskStatusSummary(ts, st, res) ==
    SummaryFrom(ts, st, res, 1,
                [total_tasks |-> Len(ts), completed |-> 0, in_progress |-> 0,
                 not_started |-> 0, failed |-> 0, tasks |-> << >>])

----------------------------------------------------------------------------
(* The orchestrator's control flow *)

Top == stack[Len(stack)]

\* The task the innermost loop stands at.
CurTask == IF Top.fn = "assign" THEN sorted_tasks[Top.idx] ELSE Top.idx

LoopLen == IF Top.fn = "assign" THEN Len(sorted_tasks) ELSE Len(tasks)

\* The innermost loop goes on to its next task.
Advance == [stack EXCEPT ![Len(stack)] = [@ EXCEPT !.idx = @ + 1, !.ready = {}]]

Pop == SubSeq(stack, 1, Len(stack) - 1)

\* (mutation of Eligible: the re-scan does not look at the status)
EligibleUnchecked == CanAssignTask(tasks, task_status, tasks[CurTask])

\* The condition under which the innermost loop sends the task it stands at.
Eligible ==
    IF Top.fn = "assign"
    THEN CanAssignTask(tasks, task_status, tasks[CurTask])
    ELSE /\ StatusGet(task_status, CurTask) = "not_started"
         /\ CanAssignTask(tasks, task_status, tasks[CurTask])

\* The tasks a re-scan of the graph would send, given the statuses st.
ReadyNow(st) ==
    { j \in Ids(tasks) : StatusGet(st, j) = "not_started"
                         /\ CanAssignTask(tasks, st, tasks[j]) }

\* Who calls assign_tasks: assign_and_monitor_tasks goes on to its monitoring
\* loop, another caller to wait_for_all_tasks_completion.
Drivers == {"monitor", "wait"}

Init ==
    /\ tasks \in ListsOver(TaskPool, MaxTasks)
    /\ task_result = [i \in Ids(tasks) |-> NoResult]
    /\ Quiet

unchangedWorkers == UNCHANGED << executing, worker_status, current_task, task_results >>
unchangedHistory == UNCHANGED << posted, skipped, was_completed, acked, rejected, faults >>

\* assign_tasks up to its assignment loop
AssignTasks ==
    /\ pc = "start"
    /\ IF tasks = << >>
       THEN /\ pc' \in Drivers
            /\ UNCHANGED << sorted_tasks, task_status, stack >>
       ELSE LET sorted == SortTasksByDependencies(tasks)
            IN /\ sorted_tasks' = sorted
               /\ task_status' = [i \in { sorted[k] : k \in 1..Len(sorted) }
                                     |-> "not_started"]
            /\ stack' = << [fn |-> "assign", idx |-> 1, ready |-> {}] >>
            /\ pc' = "loop"
    /\ UNCHANGED << setup, unanswered >>
    /\ UNCHANGED << tasks, task_result, agents, request, response >>
    /\ unchangedWorkers /\ unchangedHistory

\* An iteration that sends nothing: the else branch of assign_tasks, a false
\* condition in check_and_assign_waiting_tasks.
LoopSkip ==
    /\ pc = "loop" /\ Top.idx <= LoopLen /\ ~Eligible
    /\ stack' = Advance
    /\ skipped' = IF Top.fn = "assign" THEN skipped \cup {CurTask} ELSE skipped
    /\ UNCHANGED << setup, unanswered >>
    /\ UNCHANGED << tasks, task_result, task_status, sorted_tasks, agents, pc,
                    request, response, posted, was_completed, acked, rejected, faults >>
    /\ unchangedWorkers

\* send_task_to_agent up to the await of session.post
LoopSend ==
    /\ pc = "loop" /\ Top.idx <= LoopLen /\ Eligible
    /\ tasks[CurTask].agent \in DOMAIN agents
    /\ request' = [agent |-> tasks[CurTask].agent, task |-> CurTask,
                   n |-> posted[CurTask] + 1, stage |-> "sent"]
    /\ posted' = [posted EXCEPT ![CurTask] = @ + 1]
    /\ pc' = "await_post"
    /\ UNCHANGED << setup, unanswered >>
    /\ UNCHANGED << tasks, task_result, task_status, sorted_tasks, agents, stack,
                    response, skipped, was_completed, acked, rejected, faults >>
    /\ unchangedWorkers

\* send_task_to_agent for an owner that is not in the registry: it returns at once
LoopSendNotFound ==
    /\ pc = "loop" /\ Top.idx <= LoopLen /\ Eligible
    /\ tasks[CurTask].agent \notin DOMAIN agents
    /\ pc' = "sent"
    /\ UNCHANGED << setup, unanswered >>
    /\ UNCHANGED << tasks, task_result, task_status, sorted_tasks, agents, stack,
                    request, response >>
    /\ unchangedWorkers /\ unchangedHistory

\* The end of a loop: assign_tasks returns to its caller, the cascade returns
\* into the send_task_to_agent that started it, which returns in turn.
LoopEnd ==
    /\ pc = "loop" /\ Top.idx > LoopLen
    /\ stack' = Pop
    /\ IF Top.fn = "assign" THEN pc' \in Drivers ELSE pc' = "sent"
    /\ UNCHANGED << setup, unanswered >>
    /\ UNCHANGED << tasks, task_result, task_status, sorted_tasks, agents,
                    request, response >>
    /\ unchangedWorkers /\ unchangedHistory

\* The statement after `await self.send_task_to_agent(...)` in both loops.
StatusAfterSend(st, i) == [st EXCEPT ![i] = "assigned"]

MarkAssigned ==
    /\ pc = "sent"
    /\ task_status' = StatusAfterSend(task_status, CurTask)
    /\ stack' = Advance
    /\ pc' = "loop"
    /\ UNCHANGED << setup, unanswered >>
    /\ UNCHANGED << tasks, task_result, sorted_tasks, agents, request, response >>
    /\ unchangedWorkers /\ unchangedHistory

----------------------------------------------------------------------------
(* SubAgent.execute_task: the worker's side of POST /task *)

\* The handler has read the request: current_task and status are set.
WorkerReceive(w) ==
    /\ request.stage # "none" /\ request.agent = w /\ request.stage = "sent"
    /\ request' = [request EXCEPT !.stage = "delivered"]
    /\ executing' = executing \cup {[agent |-> w, task |-> request.task, n |-> request.n]}
    /\ current_task' = [current_task EXCEPT ![w] = request.task]
    /\ worker_status' = [worker_status EXCEPT ![w] = "working"]
    /\ UNCHANGED << setup, unanswered >>
    /\ UNCHANGED << tasks, task_result, task_status, sorted_tasks, agents, pc, stack,
                    response, task_results >>
    /\ unchangedHistory

\* Does the dispatcher still await the answer of the execution e
Awaited(e) ==
    /\ request.stage # "none" /\ request.stage = "delivered"
    /\ request.task = e.task /\ request.n = e.n

\* The text process_task returns: the worker's name and the place it takes in the log.
Outcome(w) == << w, Len(task_results[w]) + 1 >>

\* (mutation of WorkerSucceed: the result is answered but not logged)
WorkerSucceedUnlogged(e) ==
    /\ e \in executing
    /\ executing' = executing \ {e}
    /\ current_task' = [current_task EXCEPT ![e.agent] = NoTask]
    /\ worker_status' = [worker_status EXCEPT ![e.agent] = "idle"]
    /\ response' = IF Awaited(e)
                   THEN [code |-> 200, status |-> "completed", result |-> Outcome(e.agent)]
                   ELSE response
    /\ UNCHANGED << setup, unanswered >>
    /\ UNCHANGED << tasks, task_result, task_status, sorted_tasks, agents, pc, stack,
                    request, task_results >>
    /\ unchangedHistory

\* (mutation of WorkerSucceed: the new entry takes the place of the log)
WorkerSucceedOverwrites(e) ==
    /\ e \in executing
    /\ executing' = executing \ {e}
    /\ task_results' = [task_results EXCEPT ![e.agent] =
           << [task |-> e.task, result |-> Outcome(e.agent), status |-> "completed"] >>]
    /\ current_task' = [current_task EXCEPT ![e.agent] = NoTask]
    /\ worker_status' = [worker_status EXCEPT ![e.agent] = "idle"]
    /\ response' = IF Awaited(e)
                   THEN [code |-> 200, status |-> "completed", result |-> Outcome(e.agent)]
                   ELSE response
    /\ UNCHANGED << setup, unanswered >>
    /\ UNCHANGED << tasks, task_result, task_status, sorted_tasks, agents, pc, stack,
                    request >>
    /\ unchangedHistory

\* (mutation of WorkerSucceed: current_task and status are not reset)
WorkerSucceedStaysWorking(e) ==
    /\ e \in executing
    /\ executing' = executing \ {e}
    /\ task_results' = [task_results EXCEPT ![e.agent] =
           Append(@, [task |-> e.task, result |-> Outcome(e.agent), status |-> "completed"])]
    /\ response' = IF Awaited(e)
                   THEN [code |-> 200, status |-> "completed", result |-> Outcome(e.agent)]
                   ELSE response
    /\ UNCHANGED << setup, unanswered >>
    /\ UNCHANGED << tasks, task_result, task_status, sorted_tasks, agents, pc, stack,
                    request, current_task, worker_status >>
    /\ unchangedHistory

\* process_task returned: the result is logged and answered with 200.
WorkerSucceed(e) ==
    /\ e \in executing
    /\ executing' = executing \ {e}
    /\ task_results' = [task_results EXCEPT ![e.agent] =
           Append(@, [task |-> e.task, result |-> Outcome(e.agent), status |-> "completed"])]
    /\ current_task' = [current_task EXCEPT ![e.agent] = NoTask]
    /\ worker_status' = [worker_status EXCEPT ![e.agent] = "idle"]
    /\ response' = IF Awaited(e)
                   THEN [code |-> 200, status |-> "completed", result |-> Outcome(e.agent)]
                   ELSE response
    /\ UNCHANGED << setup, unanswered >>
    /\ UNCHANGED << tasks, task_result, task_status, sorted_tasks, agents, pc, stack,
                    request >>
    /\ unchangedHistory

\* (mutation of WorkerFail: the failure is answered as a completed task)
WorkerFailAnswersCompleted(e) ==
    /\ e \in executing /\ faults < MaxFaults
    /\ executing' = executing \ {e}
    /\ worker_status' = [worker_status EXCEPT ![e.agent] = "error"]
    /\ response' = IF Awaited(e)
                   THEN [code |-> 200, status |-> "completed", result |-> Outcome(e.agent)]
                   ELSE response
    /\ faults' = faults + 1
    /\ UNCHANGED << setup, unanswered >>
    /\ UNCHANGED << tasks, task_result, task_status, sorted_tasks, agents, pc, stack,
                    request, current_task, task_results, posted, skipped,
                    was_completed, acked, rejected >>

\* (mutation of WorkerFail: the failure is logged as an entry of status failed)
WorkerFailLogged(e) ==
    /\ e \in executing /\ faults < MaxFaults
    /\ executing' = executing \ {e}
    /\ worker_status' = [worker_status EXCEPT ![e.agent] = "error"]
    /\ task_results' = [task_results EXCEPT ![e.agent] =
           Append(@, [task |-> e.task, result |-> NoResult, status |-> "failed"])]
    /\ response' = IF Awaited(e)
                   THEN [code |-> 500, status |-> "failed", result |-> NoResult]
                   ELSE response
    /\ faults' = faults + 1
    /\ UNCHANGED << setup, unanswered >>
    /\ UNCHANGED << tasks, task_result, task_status, sorted_tasks, agents, pc, stack,
                    request, current_task, posted, skipped,
                    was_completed, acked, rejected >>

\* process_task raised: the except branch answers 500 and logs nothing.
WorkerFail(e) ==
    /\ e \in executing /\ faults < MaxFaults
    /\ executing' = executing \ {e}
    /\ worker_status' = [worker_status EXCEPT ![e.agent] = "error"]
    /\ response' = IF Awaited(e)
                   THEN [code |-> 500, status |-> "failed", result |-> NoResult]
                   ELSE response
    /\ faults' = faults + 1
    /\ UNCHANGED << setup, unanswered >>
    /\ UNCHANGED << tasks, task_result, task_status, sorted_tasks, agents, pc, stack,
                    request, current_task, task_results, posted, skipped,
                    was_completed, acked, rejected >>

----------------------------------------------------------------------------
(* send_task_to_agent: after the await of session.post *)

\* (mutation of StatusOnCompleted: the task is left in_progress)
StatusLeftInProgress(st, i) == [st EXCEPT ![i] = "in_progress"]

\* status 200 with result.status == "completed": in_progress, then completed at once
StatusOnCompleted(st, i) == [[st EXCEPT ![i] = "in_progress"] EXCEPT ![i] = "completed"]

\* (mutation of CascadeFrames: no re-scan is started)
CascadeNone == << >>

\* The re-scan `await self.check_and_assign_waiting_tasks()` starts.
CascadeFrames == << [fn |-> "cascade", idx |-> 1, ready |-> {}] >>

\* 200 {status: completed, result}: the task is completed and the graph re-scanned.
RecvCompleted ==
    /\ pc = "await_post" /\ response.code # 0
    /\ response.code = 200 /\ response.status = "completed"
    /\ task_status' = StatusOnCompleted(task_status, CurTask)
    /\ task_result' = [task_result EXCEPT ![CurTask] = response.result]
    /\ was_completed' = was_completed \cup {CurTask}
    /\ stack' = [stack EXCEPT ![Len(stack)].ready = ReadyNow(task_status')]
                 \o CascadeFrames
    /\ pc' = IF CascadeFrames = << >> THEN "sent" ELSE "loop"
    /\ request' = NoRequest /\ response' = NoResponse
    /\ UNCHANGED << setup, unanswered >>
    /\ UNCHANGED << tasks, sorted_tasks, agents, posted, skipped, acked, rejected, faults >>
    /\ unchangedWorkers

\* 200 with a body that is not a terminal outcome, from a worker that answers
\* before it has finished: the task is in_progress, the execution goes on.
RecvAccepted ==
    /\ pc = "await_post" /\ response = NoResponse /\ request.stage = "delivered"
    /\ faults < MaxFaults
    /\ task_status' = [task_status EXCEPT ![CurTask] = "in_progress"]
    /\ acked' = acked \cup {CurTask}
    /\ faults' = faults + 1
    /\ pc' = "sent"
    /\ request' = NoRequest
    /\ UNCHANGED << setup, unanswered >>
    /\ UNCHANGED << tasks, task_result, sorted_tasks, agents, stack, response,
                    posted, skipped, was_completed, rejected >>
    /\ unchangedWorkers

\* (mutation of RecvError: a status other than 200 makes the task failed)
RecvErrorMarksFailed ==
    /\ pc = "await_post" /\ response.code # 0 /\ response.code # 200
    /\ pc' = "sent"
    /\ request' = NoRequest /\ response' = NoResponse
    /\ rejected' = rejected \cup {CurTask}
    /\ task_status' = [task_status EXCEPT ![CurTask] = "failed"]
    /\ UNCHANGED << setup, unanswered >>
    /\ UNCHANGED << tasks, task_result, sorted_tasks, agents, stack,
                    posted, skipped, was_completed, acked, faults >>
    /\ unchangedWorkers

\* A status other than 200: the error is logged.
RecvError ==
    /\ pc = "await_post" /\ response.code # 0 /\ response.code # 200
    /\ pc' = "sent"
    /\ request' = NoRequest /\ response' = NoResponse
    /\ rejected' = rejected \cup {CurTask}
    /\ UNCHANGED << setup, unanswered >>
    /\ UNCHANGED << tasks, task_result, task_status, sorted_tasks, agents, stack,
                    posted, skipped, was_completed, acked, faults >>
    /\ unchangedWorkers

\* The request raises (refused, reset or timed out): the except branch logs it.
\* An execution the worker has begun goes on; its answer is lost.
SendException ==
    /\ pc = "await_post" /\ faults < MaxFaults
    /\ pc' = "sent"
    /\ request' = NoRequest /\ response' = NoResponse
    /\ faults' = faults + 1
    /\ UNCHANGED << setup, unanswered >>
    /\ UNCHANGED << tasks, task_result, task_status, sorted_tasks, agents, stack,
                    posted, skipped, was_completed, acked, rejected >>
    /\ unchangedWorkers

----------------------------------------------------------------------------
(* update_task_status and the two waiting loops *)

HasResult(w, i) == \E k \in 1..Len(task_results[w]) : task_results[w][k].task = i

\* (mutation of FirstResult: the search goes on to the last entry of the task)
LastResult(w, i) ==
    task_results[w][Max({ k \in 1..Len(task_results[w]) : task_results[w][k].task = i })]

\* The first entry of the log of w whose task id is i.
FirstResult(w, i) ==
    task_results[w][Min({ k \in 1..Len(task_results[w]) : task_results[w][k].task = i })]

\* status_data: the answer of the worker w to GET /status
StatusData(w) ==
    [code |-> 200, status |-> worker_status[w], current_task |-> current_task[w],
     completed_tasks |-> Len(task_results[w])]

\* `not current_task or status_data.get("status") == "idle"`
MightBeCompleted(sd) == sd.current_task = NoTask \/ sd.status = "idle"

\* Does update_task_status query the worker of the task its pass stands at
Polled ==
    /\ StatusGet(task_status, CurTask) = "in_progress"
    /\ tasks[CurTask].agent \in DOMAIN agents

\* wait_for_all_tasks_completion: the sleep is over, update_task_status begins
WaitPoll ==
    /\ pc = "wait" /\ ~AllTasksCompleted(task_status)
    /\ stack' = << [fn |-> "poll", idx |-> 1, ready |-> {}] >>
    /\ pc' = "poll"
    /\ UNCHANGED << setup, unanswered >>
    /\ UNCHANGED << tasks, task_result, task_status, sorted_tasks, agents,
                    request, response >>
    /\ unchangedWorkers /\ unchangedHistory

\* update_task_status: a task that is not in_progress, or whose owner is not
\* in the registry, is passed over
PollSkip ==
    /\ pc = "poll" /\ Top.idx <= Len(tasks) /\ ~Polled
    /\ stack' = Advance
    /\ UNCHANGED << setup, unanswered >>
    /\ UNCHANGED << tasks, task_result, task_status, sorted_tasks, agents, pc,
                    request, response >>
    /\ unchangedWorkers /\ unchangedHistory

\* (mutation of StatusRequest: a request that fails ends the whole pass)
StatusRequestAborting(ok) ==
    /\ pc = "poll" /\ Top.idx <= Len(tasks) /\ Polled
    /\ IF ok /\ MightBeCompleted(StatusData(tasks[CurTask].agent))
       THEN /\ response' = StatusData(tasks[CurTask].agent)
            /\ pc' = "poll_results"
            /\ UNCHANGED << stack, unanswered >>
       ELSE /\ stack' = IF ok THEN Advance ELSE Pop
            /\ pc' = IF ok THEN pc ELSE "wait"
            /\ unanswered' = IF ok THEN unanswered ELSE unanswered \cup {CurTask}
            /\ UNCHANGED response
    /\ UNCHANGED setup
    /\ UNCHANGED << tasks, task_result, task_status, sorted_tasks, agents, request >>
    /\ unchangedWorkers
    /\ UNCHANGED << posted, skipped, was_completed, acked, rejected, faults >>

\* update_task_status: GET /status of the owner; ok: it is answered 200.
\* Any other answer, or an exception, ends the look at this task.
StatusRequest(ok) ==
    /\ pc = "poll" /\ Top.idx <= Len(tasks) /\ Polled
    /\ IF ok /\ MightBeCompleted(StatusData(tasks[CurTask].agent))
       THEN /\ response' = StatusData(tasks[CurTask].agent)
            /\ pc' = "poll_results"
            /\ UNCHANGED << stack, unanswered >>
       ELSE /\ stack' = Advance
            /\ unanswered' = IF ok THEN unanswered ELSE unanswered \cup {CurTask}
            /\ UNCHANGED << response, pc >>
    /\ UNCHANGED setup
    /\ UNCHANGED << tasks, task_result, task_status, sorted_tasks, agents, request >>
    /\ unchangedWorkers
    /\ UNCHANGED << posted, skipped, was_completed, acked, rejected, faults >>

PollGetStatus == \E ok \in BOOLEAN : StatusRequest(ok)

\* update_task_status: GET /results of the owner; ok: it is answered 200 and
\* the log is searched for the task.
ResultsRequest(ok) ==
    /\ pc = "poll_results"
    /\ IF ok /\ HasResult(tasks[CurTask].agent, CurTask)
       THEN /\ task_status' = [task_status EXCEPT ![CurTask] = "completed"]
            /\ task_result' = [task_result EXCEPT ![CurTask] =
                                  FirstResult(tasks[CurTask].agent, CurTask).result]
            /\ was_completed' = was_completed \cup {CurTask}
       ELSE UNCHANGED << task_status, task_result, was_completed >>
    /\ unanswered' = IF ok THEN unanswered ELSE unanswered \cup {CurTask}
    /\ stack' = Advance
    /\ pc' = "poll"
    /\ response' = NoResponse
    /\ UNCHANGED setup
    /\ UNCHANGED << tasks, sorted_tasks, agents, request, posted, skipped, acked,
                    rejected, faults >>
    /\ unchangedWorkers

PollGetResults == \E ok \in BOOLEAN : ResultsRequest(ok)

\* update_task_status returns into the loop of wait_for_all_tasks_completion
PollEnd ==
    /\ pc = "poll" /\ Top.idx > Len(tasks)
    /\ stack' = Pop
    /\ pc' = "wait"
    /\ UNCHANGED << setup, unanswered >>
    /\ UNCHANGED << tasks, task_result, task_status, sorted_tasks, agents,
                    request, response >>
    /\ unchangedWorkers /\ unchangedHistory

\* (mutation of WaitTimeout: on expiry the tasks that are not completed are failed)
WaitTimeoutFailing ==
    /\ pc = "wait" /\ ~AllTasksCompleted(task_status)
    /\ pc' = "timed_out"
    /\ task_status' = [i \in DOMAIN task_status |->
                          IF task_status[i] = "completed" THEN "completed" ELSE "failed"]
    /\ UNCHANGED << setup, unanswered >>
    /\ UNCHANGED << tasks, task_result, sorted_tasks, agents, stack,
                    request, response >>
    /\ unchangedWorkers /\ unchangedHistory

\* wait_for_all_tasks_completion: the timeout has passed, it returns False
WaitTimeout ==
    /\ pc = "wait" /\ ~AllTasksCompleted(task_status)
    /\ pc' = "timed_out"
    /\ UNCHANGED << setup, unanswered >>
    /\ UNCHANGED << tasks, task_result, task_status, sorted_tasks, agents, stack,
                    request, response >>
    /\ unchangedWorkers /\ unchangedHistory

\* wait_for_all_tasks_completion returns True
WaitReturn ==
    /\ pc = "wait" /\ AllTasksCompleted(task_status)
    /\ pc' = "done"
    /\ UNCHANGED << setup, unanswered >>
    /\ UNCHANGED << tasks, task_result, task_status, sorted_tasks, agents, stack,
                    request, response >>
    /\ unchangedWorkers /\ unchangedHistory

\* (mutation of MonitorPoll: an agent whose status is not answered is dropped)
MonitorPollForgets ==
    /\ pc = "monitor" /\ ~AllTasksCompleted(task_status)
    /\ \E seen \in SUBSET DOMAIN agents :
          agents' = [a \in seen |-> worker_status[a]]
    /\ UNCHANGED << setup, unanswered >>
    /\ UNCHANGED << tasks, task_result, task_status, sorted_tasks, pc, stack,
                    request, response >>
    /\ unchangedWorkers /\ unchangedHistory

\* assign_and_monitor_tasks: one round of its loop; seen holds the agents whose
\* GET /status is answered.
MonitorPoll ==
    /\ pc = "monitor" /\ ~AllTasksCompleted(task_status)
    /\ \E seen \in SUBSET DOMAIN agents :
          agents' = [a \in DOMAIN agents |->
                        IF a \in seen THEN worker_status[a] ELSE agents[a]]
    /\ UNCHANGED << setup, unanswered >>
    /\ UNCHANGED << tasks, task_result, task_status, sorted_tasks, pc, stack,
                    request, response >>
    /\ unchangedWorkers /\ unchangedHistory

\* assign_and_monitor_tasks: the loop exits and the results are returned
MonitorExit ==
    /\ pc = "monitor" /\ AllTasksCompleted(task_status)
    /\ pc' = "done"
    /\ UNCHANGED << setup, unanswered >>
    /\ UNCHANGED << tasks, task_result, task_status, sorted_tasks, agents, stack,
                    request, response >>
    /\ unchangedWorkers /\ unchangedHistory

----------------------------------------------------------------------------
(* The specifications of a session *)

Dispatcher ==
    \/ AssignTasks
    \/ LoopSkip
    \/ LoopSend
    \/ LoopSendNotFound
    \/ LoopEnd
    \/ MarkAssigned
    \/ RecvCompleted
    \/ RecvError
    \/ WaitPoll
    \/ PollSkip
    \/ PollEnd
    \/ WaitTimeout
    \/ WaitReturn
    \/ MonitorPoll
    \/ MonitorExit

Workers ==
    \/ \E w \in Registered : WorkerReceive(w)
    \/ \E e \in executing : WorkerSucceed(e)
    \/ \E e \in executing : WorkerFail(e)

Next ==
    \/ Dispatcher
    \/ Workers
    \/ RecvAccepted
    \/ SendException

Spec == Init /\ [][Next]_vars

\* The event loop runs the orchestrator whenever it can go on, and a worker
\* that has a request reads it and ends its execution.
FairSpec == Spec /\ WF_vars(Dispatcher) /\ WF_vars(Workers)

\* Time passes as well: a wait_for_all_tasks_completion that keeps coming back
\* to its loop test finds its timeout expired at some point.
TimedSpec == FairSpec /\ SF_vars(WaitTimeout)

----------------------------------------------------------------------------
(* assign_tasks on its own, as a caller that awaits nothing else runs it *)

MaxAssignTasks == 3  \* longest task list of the assignment specification

AssignPool == { Task("A", <<>>, 2, "developer"),
                Task("B", <<"A">>, 1, "qa"),
                Task("B", <<>>, 1, "qa"),
                Task("B", <<"ghost">>, 2, "nobody"),
                Task("C", <<"A", "B">>, 1, "developer") }

InitAssign ==
    /\ tasks \in ListsOver(AssignPool, MaxAssignTasks)
    /\ task_result = [i \in Ids(tasks) |-> NoResult]
    /\ Quiet

\* The steps of assign_tasks and of the calls it awaits.
AssignStep ==
    \/ AssignTasks
    \/ LoopSkip
    \/ LoopSend
    \/ LoopSendNotFound
    \/ LoopEnd
    \/ MarkAssigned
    \/ RecvCompleted
    \/ RecvError

NextAssign ==
    \/ AssignStep
    \/ Workers
    \/ RecvAccepted
    \/ SendException

\* Every worker request returns: the worker that has a request reads it and
\* ends its execution, and the event loop resumes assign_tasks.
SpecAssign ==
    InitAssign /\ [][NextAssign]_vars /\ WF_vars(AssignStep) /\ WF_vars(Workers)

----------------------------------------------------------------------------
(* ComposerAgent.orchestrate: the workers are spawned, the tasks assigned and
   monitored, the workers cleaned up. tasks holds the records of the
   docs/tasks.md that generate_requirements_docs has written. *)

\* agent_configs.items(): the configured agents in their order
SpawnOrder == << "developer", "qa" >>

Unspawned == { k \in 1..Len(SpawnOrder) : SpawnOrder[k] \notin DOMAIN agents }

\* The agent wait_for_agent_ready is waiting for.
Starting == CHOOSE a \in DOMAIN agents : agents[a] = "starting"

InitOrch ==
    /\ tasks \in ListsOver(TaskPool, MaxOrchTasks)
    /\ task_result = [i \in Ids(tasks) |-> NoResult]
    /\ Fresh
    /\ content = NoContent
    /\ agents = << >>
    /\ agent_processes = << >>
    /\ processes = << >>
    /\ pc = "spawn"

unchangedSession ==
    /\ UNCHANGED << content, unanswered, tasks, task_result, task_status, sorted_tasks,
                    stack, request, response, worker_status, current_task,
                    task_results >>
    /\ unchangedHistory

\* spawn_sub_agents: the next agent's process is started and both tables get
\* their entry, before the wait for its readiness
SpawnAgent ==
    /\ pc = "spawn" /\ Unspawned # {}
    /\ LET a == SpawnOrder[Min(Unspawned)]
       IN /\ agents' = (a :> "starting") @@ agents
          /\ agent_processes' = (a :> a) @@ agent_processes
          /\ processes' = (a :> "running") @@ processes
    /\ pc' = "wait_ready"
    /\ UNCHANGED executing
    /\ unchangedSession

\* wait_for_agent_ready returns: GET /health was answered 200
AgentReady ==
    /\ pc = "wait_ready"
    /\ agents' = [agents EXCEPT ![Starting] = "ready"]
    /\ pc' = "spawn"
    /\ UNCHANGED << agent_processes, processes, executing >>
    /\ unchangedSession

\* wait_for_agent_ready raises TimeoutError, which leaves spawn_sub_agents
\* and arrives in the except branch of orchestrate
ReadyTimeout ==
    /\ pc = "wait_ready"
    /\ pc' = "except"
    /\ UNCHANGED << agents, agent_processes, processes, executing >>
    /\ unchangedSession

\* spawn_sub_agents returns: assign_and_monitor_tasks begins
SpawnDone ==
    /\ pc = "spawn" /\ Unspawned = {}
    /\ pc' = "start"
    /\ UNCHANGED << agents, agent_processes, processes, executing >>
    /\ unchangedSession

\* The processes the table holds.
Tabled == { agent_processes[a] : a \in DOMAIN agent_processes }

\* (mutation of CleanupAgents: the process of an agent that never got ready is left alone)
CleanupAgentsReadyOnly ==
    /\ pc \in {"done", "except"}
    /\ processes' = [p \in DOMAIN processes |->
                        IF p \in Tabled /\ agents[p] # "starting"
                        THEN "terminated" ELSE processes[p]]
    /\ executing' = { e \in executing : e.agent \notin DOMAIN agent_processes }
    /\ agent_processes' = << >>
    /\ agents' = << >>
    /\ pc' = IF pc = "except" THEN "raised" ELSE "returned"
    /\ unchangedSession

\* cleanup_agents, after assign_and_monitor_tasks or in the except branch:
\* every process of the table is terminated, both tables are cleared; then
\* orchestrate returns the result or raises again
CleanupAgents ==
    /\ pc \in {"done", "except"}
    /\ processes' = [p \in DOMAIN processes |->
                        IF p \in Tabled THEN "terminated" ELSE processes[p]]
    /\ executing' = { e \in executing : e.agent \notin DOMAIN agent_processes }
    /\ agent_processes' = << >>
    /\ agents' = << >>
    /\ pc' = IF pc = "except" THEN "raised" ELSE "returned"
    /\ unchangedSession

Orchestrate ==
    \/ SpawnAgent
    \/ AgentReady
    \/ ReadyTimeout
    \/ SpawnDone
    \/ CleanupAgents

NextOrch ==
    \/ Orchestrate
    \/ Next

SpecOrch == InitOrch /\ [][NextOrch]_vars

----------------------------------------------------------------------------
(* wait_for_all_tasks_completion called on a TaskManager whose tasks are under
   way: some are in_progress, and their owner is at any point of execute_task. *)

PollPool == { Task("A", <<>>, 1, "developer"), Task("C", <<>>, 2, "nobody") }

PollStatuses == {"assigned", "in_progress", "completed"}

\* What execute_task can leave in (status, current_task) of a worker.
WorkerStates(ids) ==
    { << "idle", NoTask >>, << "error", NoTask >> }
        \cup { << "working", i >> : i \in ids } \cup { << "error", i >> : i \in ids }

\* The result log after the executions of the tasks ks, in that order.
LogOf(w, ks) ==
    [k \in 1..Len(ks) |-> [task |-> ks[k], result |-> << w, k >>, status |-> "completed"]]

InitPoll ==
    /\ tasks \in ListsOver(PollPool, MaxPollTasks)
    /\ task_result = [i \in Ids(tasks) |-> NoResult]
    /\ task_status \in [Ids(tasks) -> PollStatuses]
    /\ sorted_tasks = [i \in Ids(tasks) |-> i]
    /\ content = NoContent
    /\ agents = [a \in Registered |-> "ready"]
    /\ agent_processes = [a \in Registered |-> a]
    /\ processes = [a \in Registered |-> "running"]
    /\ unanswered = {}
    /\ pc = "wait"
    /\ stack = << >>
    /\ request = NoRequest
    /\ response = NoResponse
    /\ \E ws \in WorkerStates(Ids(tasks)) :
          /\ worker_status = [a \in Registered |-> IF a = "developer" THEN ws[1] ELSE "idle"]
          /\ current_task = [a \in Registered |-> IF a = "developer" THEN ws[2] ELSE NoTask]
          /\ executing = IF ws[1] = "working"
                         THEN {[agent |-> "developer", task |-> ws[2], n |-> 1]}
                         ELSE {}
    /\ \E ks \in ListsOver(Ids(tasks), MaxLog) :
          task_results = [a \in Registered |->
                             IF a = "developer" THEN LogOf(a, ks) ELSE << >>]
    /\ posted = [i \in Ids(tasks) |-> 0]
    /\ skipped = {}
    /\ was_completed = { i \in Ids(tasks) : task_status[i] = "completed" }
    /\ acked = {}
    /\ rejected = {}
    /\ faults = 0

NextPoll ==
    \/ WaitPoll
    \/ PollSkip
    \/ PollGetStatus
    \/ PollGetResults
    \/ PollEnd
    \/ WaitTimeout
    \/ WaitReturn
    \/ \E e \in executing : WorkerSucceed(e)
    \/ \E e \in executing : WorkerFail(e)

SpecPoll == InitPoll /\ [][NextPoll]_vars

----------------------------------------------------------------------------
(* parse_tasks_markdown. A text is a sequence of tokens: a word, a number, a
   blank, a comma or one of the field names; a task line is given by the groups
   task_pattern finds in it, the title and the metadata between the brackets. *)

Blank == " "
Comma == ","

\* int(priority_match.group(1)) for the numbers that occur
Numbers == [ n \in {"1", "2"} |-> IF n = "1" THEN 1 ELSE 2 ]

FieldNames == {"Priority:", "Agent:", "Dependencies:"}

RECURSIVE BlanksEnd(_, _)
\* \s* from position i: the position behind the blanks
BlanksEnd(md, i) ==
    IF i <= Len(md) /\ md[i] = Blank THEN BlanksEnd(md, i + 1) ELSE i

RECURSIVE RunEnd(_, _)
\* [^,)]+ from position i: the position behind the tokens that are no comma
RunEnd(md, i) ==
    IF i <= Len(md) /\ md[i] # Comma THEN RunEnd(md, i + 1) ELSE i

\* The match of \s*([^,)]+) behind the field name at k: the group, in a
\* one-element sequence, or << >> when there is no match. When no token follows
\* the blanks, \s* gives its last blank back to the group.
GroupBehind(md, k) ==
    LET b == BlanksEnd(md, k + 1)
        e == RunEnd(md, b)
    IN IF e > b THEN << SubSeq(md, b, e - 1) >>
       ELSE IF b > k + 1 THEN << SubSeq(md, b - 1, b - 1) >>
       ELSE << >>

\* re.search(r'Dependencies:\s*([^,)]+)', task_metadata): the leftmost match
DepsMatch(md) ==
    LET at == { k \in 1..Len(md) : md[k] = "Dependencies:" /\ GroupBehind(md, k) # << >> }
    IN IF at = {} THEN << >> ELSE GroupBehind(md, Min(at))

RECURSIVE Strip(_)
\* str.strip()
Strip(t) ==
    IF t = << >> THEN t
    ELSE IF Head(t) = Blank THEN Strip(Tail(t))
    ELSE IF t[Len(t)] = Blank THEN Strip(SubSeq(t, 1, Len(t) - 1))
    ELSE t

RECURSIVE Split(_)
\* str.split(',')
Split(t) ==
    LET commas == { k \in 1..Len(t) : t[k] = Comma }
    IN IF commas = {} THEN << t >>
       ELSE << SubSeq(t, 1, Min(commas) - 1) >>
                \o Split(SubSeq(t, Min(commas) + 1, Len(t)))

\* dependencies of a task line with the metadata md
ParseDependencies(md) ==
    IF DepsMatch(md) = << >> THEN << >>
    ELSE LET deps_str == Strip(DepsMatch(md)[1])
         IN IF deps_str # << >> /\ deps_str # << "none" >>
            THEN [ k \in 1..Len(Split(deps_str)) |-> Strip(Split(deps_str)[k]) ]
            ELSE << >>

\* re.search(r'Priority:\s*(\d+)', task_metadata), 5 without a match
ParsePriority(md) ==
    LET at == { k \in 1..Len(md) :
                  /\ md[k] = "Priority:" /\ BlanksEnd(md, k + 1) <= Len(md)
                  /\ md[BlanksEnd(md, k + 1)] \in DOMAIN Numbers }
    IN IF at = {} THEN 5 ELSE Numbers[md[BlanksEnd(md, Min(at) + 1)]]

\* re.search(r'Agent:\s*(\w+)', task_metadata), developer without a match
ParseAgent(md) ==
    LET at == { k \in 1..Len(md) :
                  /\ md[k] = "Agent:" /\ BlanksEnd(md, k + 1) <= Len(md)
                  /\ md[BlanksEnd(md, k + 1)] \notin FieldNames \cup {Blank, Comma} }
    IN IF at = {} THEN "developer" ELSE md[BlanksEnd(md, Min(at) + 1)]

ParseTasksMarkdown(lines) ==
    [ i \in 1..Len(lines) |->
        Task(lines[i].title, ParseDependencies(lines[i].metadata),
             ParsePriority(lines[i].metadata), ParseAgent(lines[i].metadata)) ]

\* The titles a Dependencies field names in the parser specification.
DepTitles == { << "a" >>, << "b" >>, << "c", Blank, "d" >> }

RECURSIVE Join(_)
\* ", ".join(titles)
Join(titles) ==
    IF titles = << >> THEN << >>
    ELSE IF Len(titles) = 1 THEN titles[1]
    ELSE titles[1] \o << Comma, Blank >> \o Join(Tail(titles))

\* The metadata of a task line as generate_task_list writes it: the
\* Dependencies field is left out (field = << >>) or lists the titles field[1].
Metadata(p, a, field) ==
    << "Priority:", Blank, p, Comma, Blank, "Agent:", Blank, a >>
        \o (IF field = << >> THEN << >>
            ELSE << Comma, Blank, "Dependencies:", Blank >> \o Join(field[1]))

\* The Dependencies fields of the parser specification: none at all, the
\* literal none, or up to MaxDeps titles.
DepFields ==
    { << >>, << << << "none" >> >> >> }
        \cup { << ds >> : ds \in UNION { [1..k -> DepTitles] : k \in 1..MaxDeps } }

LinePool ==
    { [title |-> << "t" >>, metadata |-> Metadata(p, a, f)] :
        p \in DOMAIN Numbers, a \in Registered, f \in DepFields }

InitParse ==
    /\ content \in ListsOver(LinePool, MaxLines)
    /\ tasks = << >>
    /\ task_result = << >>
    /\ Fresh
    /\ agents = [a \in Registered |-> "ready"]
    /\ agent_processes = [a \in Registered |-> a]
    /\ processes = [a \in Registered |-> "running"]
    /\ pc = "load"

\* load_tasks_from_file: self.tasks = self.parse_tasks_markdown(content)
LoadTasks ==
    /\ pc = "load"
    /\ tasks' = ParseTasksMarkdown(content)
    /\ task_result' = [i \in 1..Len(content) |-> NoResult]
    /\ posted' = [i \in 1..Len(content) |-> 0]
    /\ pc' = "start"
    /\ UNCHANGED << setup, unanswered >>
    /\ UNCHANGED << task_status, sorted_tasks, agents, stack, request, response,
                    skipped, was_completed, acked, rejected, faults >>
    /\ unchangedWorkers

NextParse == LoadTasks

SpecParse == InitParse /\ [][NextParse]_vars

----------------------------------------------------------------------------
(* Dependency cycles, by title: the edges are those sort_tasks_by_dependencies builds *)

EdgeSet(ts) == { DepEdges(ts, 1)[k] : k \in 1..Len(DepEdges(ts, 1)) }

RECURSIVE Closure(_, _)
Closure(E, S) ==
    LET n == S \cup { e[2] : e \in { x \in E : x[1] \in S } }
    IN IF n = S THEN S ELSE Closure(E, n)

\* The titles reachable from t along one or more dependency edges.
Dependents(ts, t) == Closure(EdgeSet(ts), { e[2] : e \in { x \in EdgeSet(ts) : x[1] = t } })

HasCycle(ts) == \E t \in TitleSet(ts) : t \in Dependents(ts, t)

UniqueTitles(ts) == \A i, j \in Ids(ts) : ts[i].title = ts[j].title => i = j

----------------------------------------------------------------------------
(* C1 *)

\* In the order s, every dependency that matches a task title stands before the task.
DepsBefore(ts, s) ==
    \A p \in 1..Len(s) :
        \A k \in 1..Len(ts[s[p]].dependencies) :
            LET dep == ts[s[p]].dependencies[k]
            IN dep \in TitleSet(ts) => \E q \in 1..(p - 1) : ts[s[q]].title = dep

\* Every title of the list is the title of exactly one task of the order s.
EachTitleOnce(ts, s) ==
    \A t \in TitleSet(ts) : Cardinality({ p \in 1..Len(s) : ts[s[p]].title = t }) = 1

\* The list of test_sort_tasks_by_dependencies: task_c, task_a, task_b.
TestList == << Task("C", <<"A", "B">>, 1, "developer"), Task("A", <<>>, 2, "developer"),
               Task("B", <<"A">>, 1, "developer") >>

\* Scenario A of the specification: A, B, C in that order.
ScenarioA == << Task("A", <<>>, 2, "developer"), Task("B", <<"A">>, 1, "developer"),
                Task("C", <<"A", "B">>, 1, "developer") >>

\* C1: for a task list without a dependency cycle, sort_tasks_by_dependencies
\* returns an order that holds a task for every title and in which every
\* dependency matching a task title stands strictly before the dependent task;
\* the test's list comes out as task_a, task_b, task_c and Scenario A as A, B, C.
C1_TopologicalOrder ==
    (pc = "sorted" /\ ~HasCycle(tasks)) =>
        /\ DepsBefore(tasks, sorted_tasks)
        /\ EachTitleOnce(tasks, sorted_tasks)
        /\ tasks = TestList => sorted_tasks = <<2, 3, 1>>
        /\ tasks = ScenarioA => sorted_tasks = <<1, 2, 3>>

C1_Witness ==
    /\ pc = "sorted"
    /\ tasks = TestList
    /\ ~HasCycle(tasks)
    /\ sorted_tasks = <<2, 3, 1>>

----------------------------------------------------------------------------
(* C2 *)

\* The tasks the dependencies of task i resolve to: the first task of each title.
ResolvedDeps(i) ==
    { FirstWithTitle(tasks, tasks[i].dependencies[k]) :
        k \in 1..Len(tasks[i].dependencies) } \ {0}

\* Has the execution of task i ended at its worker with a logged result
Executed(i) == tasks[i].agent \in Registered /\ HasResult(tasks[i].agent, i)

\* C2: while a POST /task of the dispatcher is under way, from the top-level
\* pass or from the cascade, every dependency of the submitted task that
\* resolves to a task of the graph has the tracked status completed, and its
\* execution has ended at its worker.
C2_DepsCompletedAtSubmission ==
    request.stage # "none" =>
        \A d \in ResolvedDeps(request.task) :
            StatusGet(task_status, d) = "completed" /\ Executed(d)

C2_Witness ==
    /\ request.stage = "sent"
    /\ Cardinality(ResolvedDeps(request.task)) = 2
    /\ Len(stack) > 1

----------------------------------------------------------------------------
(* C3 *)

OwnersRegistered == \A i \in Ids(tasks) : tasks[i].agent \in Registered

AllDone == \A i \in Ids(tasks) : StatusGet(task_status, i) = "completed"

\* C3: for an acyclic task graph with unique titles whose owners are all
\* registered, when every submission is answered 200 completed and the wait
\* does not time out, the session eventually reaches a state where every task
\* is completed and the waiting loop has exited.
C3_EventuallyAllCompleted ==
    (/\ ~HasCycle(tasks) /\ UniqueTitles(tasks) /\ OwnersRegistered
     /\ [](faults = 0) /\ [](pc # "timed_out"))
        => <>(pc = "done" /\ AllDone /\ AllTasksCompleted(task_status))

----------------------------------------------------------------------------
(* C4 *)

Rank(s) == CASE s = "not_started" -> 0
             [] s = "assigned" -> 1
             [] s = "in_progress" -> 2
             [] OTHER -> 3

\* C4: a tracked status only moves forward along not_started, assigned,
\* in_progress, completed; a completed task stays completed.
C4_StatusOnlyForward ==
    [][\A i \in DOMAIN task_status :
          i \in DOMAIN task_status' => Rank(task_status'[i]) >= Rank(task_status[i])]_vars

----------------------------------------------------------------------------
(* C5 *)

\* Where the orchestrator is suspended: in a request or in a sleep.
SuspensionPoints == {"await_post", "monitor", "wait", "poll", "poll_results"}

----------------------------------------------------------------------------
(* C6 *)

\* The send_task_to_agent of the innermost loop's task is about to return.
SendReturns == pc = "sent"

\* C6 as claimed: when a task was completed synchronously, every task that was
\* not_started at that moment with all resolvable dependencies completed has
\* been submitted to its worker when that send_task_to_agent returns.
C6_CascadeSubmitsAllReady ==
    SendReturns => \A j \in Top.ready : posted[j] > 0

\* C6 as amended: the same for the tasks whose owner is in the agent registry.
C6_CascadeSubmitsRegisteredReady ==
    SendReturns =>
        \A j \in Top.ready : tasks[j].agent \in DOMAIN agents => posted[j] > 0

C6_Witness ==
    /\ SendReturns
    /\ Cardinality(Top.ready) = 2
    /\ \A j \in Top.ready : tasks[j].agent \in DOMAIN agents /\ posted[j] = 1

----------------------------------------------------------------------------
(* C7 *)

\* The statuses of test_can_assign_task: task_a completed, task_b in_progress,
\* task_c not_started.
TestStatus == << "completed", "in_progress", "not_started" >>

\* C7: can_assign_task(t) is true iff every dependency title of t that matches
\* a task refers (by its first match) to a task with a status entry that is
\* completed: a title matching no task does not block, a matching task
\* without an entry blocks like a not_started one. The cases of the test hold.
C7_CanAssignIff ==
    /\ \A i \in Ids(tasks) :
          CanAssignTask(tasks, task_status, tasks[i]) <=>
              \A d \in ResolvedDeps(i) :
                  d \in DOMAIN task_status /\ task_status[d] = "completed"
    /\ CanAssignTask(ScenarioA, TestStatus, [dependencies |-> << >>])
    /\ CanAssignTask(ScenarioA, TestStatus, [dependencies |-> <<"A">>])
    /\ ~CanAssignTask(ScenarioA, TestStatus, [dependencies |-> <<"A", "B">>])
    /\ CanAssignTask(ScenarioA, TestStatus, [dependencies |-> <<"ghost">>])

C7_Witness ==
    /\ pc = "loop"
    /\ \E i \in Ids(tasks) :
          /\ ResolvedDeps(i) # {}
          /\ CanAssignTask(tasks, task_status, tasks[i])
    /\ \E i \in Ids(tasks) :
          /\ ResolvedDeps(i) # {}
          /\ ~CanAssignTask(tasks, task_status, tasks[i])
    /\ \E i \in Ids(tasks) :
          /\ tasks[i].dependencies = <<"ghost">>
          /\ CanAssignTask(tasks, task_status, tasks[i])

\* A dependency whose first match has no status entry blocks the task.
C7_UntrackedCase ==
    /\ pc = "loop"
    /\ \E i \in Ids(tasks) :
          /\ \E d \in ResolvedDeps(i) : d \notin DOMAIN task_status
          /\ \A d \in ResolvedDeps(i) : d \in DOMAIN task_status => task_status[d] = "completed"
          /\ ~CanAssignTask(tasks, task_status, tasks[i])

----------------------------------------------------------------------------
(* C8 *)

\* C8: all_tasks_completed() is true iff every entry of the status map is
\* completed, and from a state where it is true, changing any one entry to
\* another status makes it false.
C8_AllCompletedIff ==
    /\ AllTasksCompleted(task_status) <=>
           \A i \in DOMAIN task_status : task_status[i] = "completed"
    /\ AllTasksCompleted(task_status) =>
           \A i \in DOMAIN task_status : \A s \in Statuses \ {"completed"} :
               ~AllTasksCompleted([task_status EXCEPT ![i] = s])

C8_Witness ==
    /\ AllTasksCompleted(task_status)
    /\ Cardinality(DOMAIN task_status) = 3

----------------------------------------------------------------------------
(* C9 *)

\* Every dependency of task i that resolves to a task has been completed.
DepsWereCompleted(i) == \A d \in ResolvedDeps(i) : d \in was_completed

\* C9: a not_started task that the top-level pass skipped is eventually
\* submitted once all of its resolvable dependencies have become completed.
\* (The session is one whose wait never times out, so the poller keeps running.)
C9_SkippedEventuallySubmitted ==
    [](pc # "timed_out") =>
        \A i \in 1..MaxTasks :
            [](( /\ i \in skipped
                 /\ StatusGet(task_status, i) = "not_started"
                 /\ DepsWereCompleted(i) )
               => <>(i \in Ids(tasks) /\ posted[i] > 0))

----------------------------------------------------------------------------
(* C10 *)

\* The assign step of task i is over: its send_task_to_agent has returned and
\* the loop that sent it has gone on.
AssignStepOver(i) == request.stage = "none" /\ ~(pc = "sent" /\ CurTask = i)

\* C10: a task whose single submission was acknowledged with a 200 that is
\* not a terminal outcome is in_progress once its assign step is over (and so
\* is looked at by update_task_status), until it is completed.
C10_AcknowledgedIsInProgress ==
    \A i \in acked :
        (posted[i] = 1 /\ AssignStepOver(i)) =>
            StatusGet(task_status, i) \in {"in_progress", "completed"}

----------------------------------------------------------------------------
(* C11 *)

RECURSIVE Depth(_, _)
\* The dependency depth of the title t in an acyclic list: 0 without a
\* resolvable dependency, else one more than the deepest dependency.
Depth(ts, t) ==
    LET deps == { e[1] : e \in { x \in EdgeSet(ts) : x[2] = t } }
    IN IF deps = {} THEN 0 ELSE 1 + Max({ Depth(ts, d) : d \in deps })

\* Scenario B of the specification: X(priority 5) and Y(priority 1), no dependencies.
ScenarioB == << Task("X", <<>>, 5, "developer"), Task("Y", <<>>, 1, "developer") >>

\* C11: in the order returned for an acyclic list with distinct titles, of two
\* tasks with the same dependency depth the one with the smaller priority
\* number stands earlier; Scenario B yields Y before X.
C11_SameDepthByPriority ==
    /\ SortTasksByDependencies(ScenarioB) = <<2, 1>>
    /\ (pc = "sorted" /\ UniqueTitles(tasks) /\ ~HasCycle(tasks)) =>
          \A p, q \in 1..Len(sorted_tasks) :
              ( /\ Depth(tasks, tasks[sorted_tasks[p]].title)
                     = Depth(tasks, tasks[sorted_tasks[q]].title)
                /\ tasks[sorted_tasks[p]].priority < tasks[sorted_tasks[q]].priority )
              => p < q

----------------------------------------------------------------------------
(* C12 *)

\* The title t lies on a dependency cycle (a self-dependency included).
OnCycle(ts, t) == t \in Dependents(ts, t)

\* The title t depends, directly or transitively, on a title that lies on a cycle.
DependsOnCycle(ts, t) ==
    \E c \in TitleSet(ts) : OnCycle(ts, c) /\ t \in Dependents(ts, c)

\* The titles of the tasks of the order s.
TitlesIn(ts, s) == { ts[s[p]].title : p \in 1..Len(s) }

C12_TwoTaskCycle ==
    /\ pc = "sorted" /\ UniqueTitles(tasks)
    /\ \E i, j \in Ids(tasks) :
          /\ i # j
          /\ tasks[j].title \in Dependents(tasks, tasks[i].title)
          /\ tasks[i].title \in Dependents(tasks, tasks[j].title)
    /\ Len(sorted_tasks) = 1

----------------------------------------------------------------------------
(* C13 *)

\* C13: a task whose title lies on a dependency cycle is never submitted to a
\* worker, its tracked status is never anything but not_started (it has no
\* entry at all), and the status summary reports it as not_started.
C13_CycleTasksNeverSubmitted ==
    \A i \in Ids(tasks) :
        OnCycle(tasks, tasks[i].title) =>
            /\ posted[i] = 0
            /\ (request.stage # "none" => request.task # i)
            /\ \A w \in Registered : ~HasResult(w, i)
            /\ StatusGet(task_status, i) \in {None, "not_started"}
            /\ SummaryStatus(task_status, i) = "not_started"

\* The session is past its assignment pass, a free task was completed and
\* its cascade has run, and the list holds a task on a cycle.
C13_Witness ==
    /\ pc \in Drivers
    /\ was_completed # {}
    /\ \E i \in Ids(tasks) :
          /\ OnCycle(tasks, tasks[i].title)
          /\ posted[i] = 0
          /\ SummaryStatus(task_status, i) = "not_started"

----------------------------------------------------------------------------
(* C14 *)

InProgress == { i \in Ids(tasks) : StatusGet(task_status, i) = "in_progress" }

\* C14: a pass of update_task_status makes a task completed only if the task
\* was in_progress, its owner's answer to GET /status showed no current task
\* or idle, and the owner's result log holds an entry of the task; the task's
\* result is then the outcome of the first such entry. When the log holds no
\* entry of the task it stays in_progress with its result unchanged, and
\* wait_for_all_tasks_completion goes on to another pass.
C14_PollCompletesOnLoggedResult ==
    /\ [][\A i \in Ids(tasks) :
             ( /\ pc \in {"poll", "poll_results"}
               /\ StatusGet(task_status, i) # "completed"
               /\ StatusGet(task_status', i) = "completed" )
             => /\ pc = "poll_results" /\ i = CurTask
                /\ task_status[i] = "in_progress"
                /\ MightBeCompleted(response)
                /\ \E k \in 1..Len(task_results[tasks[i].agent]) :
                      LET log == task_results[tasks[i].agent]
                      IN /\ log[k].task = i
                         /\ \A j \in 1..(k - 1) : log[j].task # i
                         /\ task_result'[i] = log[k].result]_vars
    /\ [][( /\ pc = "poll_results" /\ pc' = "poll"
             /\ ~HasResult(tasks[CurTask].agent, CurTask) )
           => /\ task_status'[CurTask] = "in_progress"
              /\ task_result' = task_result]_vars
    /\ []((pc = "wait" /\ InProgress # {}) => ENABLED WaitPoll)

\* A pass has completed a task of which the log holds two entries.
C14_Witness ==
    /\ pc = "poll"
    /\ \E i \in Ids(tasks) :
          /\ task_status[i] = "completed"
          /\ task_result[i] = << "developer", 1 >>
          /\ Len(task_results["developer"]) = 2
          /\ \A k \in 1..2 : task_results["developer"][k].task = i

\* A pass has looked at a task whose idle owner has logged nothing for it.
C14_StaysInProgress ==
    /\ pc = "poll" /\ Top.idx > Len(tasks) /\ faults = 0 /\ executing = {}
    /\ \E i \in Ids(tasks) :
          /\ task_status[i] = "in_progress" /\ tasks[i].agent = "developer"
          /\ worker_status["developer"] = "idle"
          /\ ~HasResult("developer", i)

----------------------------------------------------------------------------
(* C15 *)

\* C15: the wait for the completion of the tasks is bounded: a session leaves
\* its waiting loop, be it wait_for_all_tasks_completion or the monitoring
\* loop of assign_and_monitor_tasks, even when a task never becomes completed.
C15_WaitIsBounded == <>(pc \in {"done", "timed_out"})

----------------------------------------------------------------------------
(* C16 *)

\* C16: when wait_for_all_tasks_completion returns False on the expiry of its
\* timeout, some task is not completed, every status and result is as it was
\* and no request is sent to a worker, whose execution goes on untouched;
\* when it returns True, all_tasks_completed() holds.
C16_TimeoutLeavesEverything ==
    [][ /\ (pc = "wait" /\ pc' = "timed_out") =>
              /\ ~AllTasksCompleted(task_status)
              /\ task_status' = task_status /\ task_result' = task_result
              /\ request.stage = "none" /\ request' = request /\ posted' = posted
              /\ executing' = executing /\ worker_status' = worker_status
              /\ current_task' = current_task /\ task_results' = task_results
        /\ (pc = "wait" /\ pc' = "done") =>
              /\ AllTasksCompleted(task_status')
              /\ \A i \in DOMAIN task_status' : task_status'[i] = "completed" ]_vars

\* The timeout has expired while a task is in_progress and its worker executes.
C16_Witness ==
    /\ pc = "timed_out"
    /\ executing # {}
    /\ \E i \in InProgress : current_task[tasks[i].agent] = i

\* The wait has returned True after a pass completed a task.
C16_ReturnsTrue ==
    /\ pc = "done"
    /\ \E i \in Ids(tasks) : task_result[i] # NoResult

----------------------------------------------------------------------------
(* C17 *)

\* The step ends a send_task_to_agent at transport level: the owner is not in
\* the registry, the request raised, or the answer is not a 200.
SubmissionFails == LoopSendNotFound \/ SendException \/ RecvError

\* C17: a submission that fails at transport level leaves the task's status
\* (not_started or assigned, never in_progress, completed or failed) and all
\* results as they are and starts no cascade; the assign step then ends with
\* the status assigned, the result still unchanged.
C17_FailedSubmissionIsAssigned ==
    /\ [][SubmissionFails =>
            /\ task_status' = task_status
            /\ task_status[CurTask] \in {"not_started", "assigned"}
            /\ task_result' = task_result
            /\ stack' = stack]_vars
    /\ [][(pc = "sent" /\ pc' # "sent") =>
            /\ pc' = "loop"
            /\ task_status' = [task_status EXCEPT ![CurTask] = "assigned"]
            /\ task_result' = task_result
            /\ Len(stack') = Len(stack)]_vars

\* The session is past its assignment pass; a task's only submission was
\* answered 500.
C17_Witness ==
    /\ pc \in Drivers
    /\ \E i \in rejected :
          /\ posted[i] = 1
          /\ task_status[i] = "assigned"
          /\ task_result[i] = NoResult

\* The same after a request that raised, and for an owner missing from the registry.
C17_OtherCases ==
    /\ pc \in Drivers /\ faults = 1 /\ rejected = {} /\ acked = {}
    /\ \E i \in Ids(tasks) :
          /\ posted[i] = 1 /\ i \notin was_completed
          /\ StatusGet(task_status, i) = "assigned" /\ task_result[i] = NoResult
    /\ \E i \in Ids(tasks) :
          /\ tasks[i].agent \notin DOMAIN agents
          /\ posted[i] = 0 /\ StatusGet(task_status, i) = "assigned"

----------------------------------------------------------------------------
(* C18 *)

\* No tracked status is ever failed.
NeverFailed == \A i \in DOMAIN task_status : task_status[i] # "failed"

\* A task whose submission was answered 500 is in no terminal status.
RejectedStayOpen ==
    \A i \in rejected : StatusGet(task_status, i) \notin {"completed", "failed"}

\* Once a submission was answered 500, all_tasks_completed() is false.
RejectedBlocksCompletion == rejected # {} => ~AllTasksCompleted(task_status)

\* C18: after a worker answered a submission with an execution failure (500),
\* no tracked status ever becomes failed, the task of that submission stays in
\* a non-terminal status and all_tasks_completed() stays false.
C18_FailedExecutionStaysOpen ==
    NeverFailed /\ RejectedStayOpen /\ RejectedBlocksCompletion

----------------------------------------------------------------------------
(* C19 *)

\* The execute_task handlers under way at the worker w.
Handlers(w) == { e \in executing : e.agent = w }

\* C19: the dispatcher has at most one submission to a worker outstanding, so
\* no POST /task reaches a worker that is Working: a worker never runs two
\* handlers at once, and a request on its way finds its worker not working.
\* (Stated for the sessions in which every 200 carried a terminal outcome, as
\* every answer of execute_task does.)
C19_OneSubmissionPerWorker ==
    acked = {} =>
        \A w \in Registered :
            /\ Cardinality(Handlers(w)) <= 1
            /\ (request.stage = "sent" /\ request.agent = w) =>
                   (Handlers(w) = {} /\ worker_status[w] # "working")

----------------------------------------------------------------------------
(* C20 *)

\* Two different workers are Working at the same time.
TwoWorking ==
    \E v, w \in Registered : v # w /\ worker_status[v] = "working"
                                   /\ worker_status[w] = "working"

\* C20: states in which two different workers are Working at the same time
\* are reached, and in them the parallelism is real: each of the two runs a
\* handler of execute_task. The dispatcher awaits the end of every execution
\* it submits, so such a state comes about only after a submission that did
\* not end with the worker's 200 completed.
C20_ParallelismIsReal ==
    \A v, w \in Registered :
        (v # w /\ worker_status[v] = "working" /\ worker_status[w] = "working") =>
            /\ Handlers(v) # {} /\ Handlers(w) # {}
            /\ faults > 0

C20_Witness ==
    /\ TwoWorking /\ acked = {}
    /\ \A w \in Registered : Cardinality(Handlers(w)) = 1
    /\ \A w \in Registered : \A e \in Handlers(w) : current_task[w] = e.task

----------------------------------------------------------------------------
(* C21 *)

\* C21: when an execution succeeds, the worker appends exactly one entry
\* {task, result, status: completed} of that task to its result log, clears
\* current_task, sets its status to idle and answers 200 {status: completed,
\* result} with the result it has logged.
C21_SuccessIsLoggedAndAnswered ==
    [][\A e \in executing :
          WorkerSucceed(e) =>
              LET w == e.agent
                  n == Len(task_results[w])
              IN /\ Len(task_results'[w]) = n + 1
                 /\ SubSeq(task_results'[w], 1, n) = task_results[w]
                 /\ task_results'[w][n + 1].task = e.task
                 /\ task_results'[w][n + 1].status = "completed"
                 /\ \A v \in Registered \ {w} : task_results'[v] = task_results[v]
                 /\ current_task'[w] = NoTask
                 /\ worker_status'[w] = "idle"
                 /\ Awaited(e) =>
                        /\ response'.code = 200
                        /\ response'.status = "completed"
                        /\ response'.result = task_results'[w][n + 1].result]_vars

\* The dispatcher holds the 200 of a worker that has logged its second result.
C21_Witness ==
    /\ pc = "await_post" /\ response.code = 200 /\ response.status = "completed"
    /\ LET w == request.agent
       IN /\ Len(task_results[w]) = 2
          /\ task_results[w][2].task = request.task
          /\ task_results[w][2].result = response.result
          /\ current_task[w] = NoTask /\ worker_status[w] = "idle"

----------------------------------------------------------------------------
(* C22 *)

\* C22: when the execution raises inside the worker, the worker answers
\* 500 {status: failed} and its result log is as it was: no entry is appended.
C22_FailureIsNotLogged ==
    [][\A e \in executing :
          WorkerFail(e) =>
              /\ task_results' = task_results
              /\ Awaited(e) => (response'.code = 500 /\ response'.status = "failed")]_vars

\* The dispatcher holds the 500 of a worker whose log has no entry of the task.
C22_Witness ==
    /\ pc = "await_post" /\ response.code = 500 /\ response.status = "failed"
    /\ ~HasResult(request.agent, request.task)
    /\ Len(task_results[request.agent]) = 1

----------------------------------------------------------------------------
(* C23 *)

\* C23: every worker follows Idle -> Working -> {Completed, Error} -> Idle: a
\* worker that is Working gets back, whether its execution succeeds or raises,
\* to reporting the status idle and no current task.
C23_WorkerReturnsToIdle ==
    \A w \in Registered :
        (worker_status[w] = "working")
            ~> (worker_status[w] = "idle" /\ current_task[w] = NoTask)

----------------------------------------------------------------------------
(* C24 *)

\* C24: a worker's result log only grows: in every step the log is what it
\* was, possibly followed by new entries, so no entry is modified, reordered
\* or removed, and the completed_tasks count of GET /status never decreases.
C24_LogOnlyGrows ==
    [][\A w \in Registered :
          /\ Len(task_results'[w]) >= Len(task_results[w])
          /\ SubSeq(task_results'[w], 1, Len(task_results[w])) = task_results[w]
          /\ StatusData(w)'.completed_tasks >= StatusData(w).completed_tasks]_vars

\* A worker has logged a second result behind its first one.
C24_Witness ==
    \E w \in Registered :
        /\ StatusData(w).completed_tasks = 2
        /\ task_results[w][1].result = << w, 1 >>
        /\ task_results[w][2].result = << w, 2 >>
        /\ task_results[w][1].task # task_results[w][2].task

----------------------------------------------------------------------------
(* C25 *)

\* The tasks of the order s.
Scheduled(s) == { s[p] : p \in 1..Len(s) }

\* C25: when tasks share a title nothing is deduplicated: every task that
\* neither lies on a cycle nor depends on one is in the schedule and has a
\* status entry, and every dependency on a title is resolved to the first
\* task of that title in list order, in the schedule (that task stands before
\* the dependent one) and in can_assign_task (that task's status decides).
C25_FirstMatchNoDedup ==
    (pc # "start" /\ tasks # << >>) =>
        /\ \A i \in Ids(tasks) :
              (~OnCycle(tasks, tasks[i].title) /\ ~DependsOnCycle(tasks, tasks[i].title))
                  => (i \in Scheduled(sorted_tasks) /\ i \in DOMAIN task_status)
        /\ \A p \in 1..Len(sorted_tasks) :
              \A d \in ResolvedDeps(sorted_tasks[p]) :
                  \E q \in 1..(p - 1) : sorted_tasks[q] = d
        /\ \A i \in Ids(tasks) :
              CanAssignTask(tasks, task_status, tasks[i]) <=>
                  \A d \in ResolvedDeps(i) : StatusGet(task_status, d) = "completed"

----------------------------------------------------------------------------
(* C26 *)

\* A GET /status or GET /results of update_task_status raises or is answered
\* otherwise than 200.
PollRequestFails == StatusRequest(FALSE) \/ ResultsRequest(FALSE)

\* C26: a transport failure of a GET /status or GET /results of the poller
\* changes no task status and no task result and does not end the pass, which
\* goes on to the next task; and whenever wait_for_all_tasks_completion is back
\* at its loop with a task not completed, it can poll again.
C26_PollFailureIsSoft ==
    /\ [][PollRequestFails =>
            /\ task_status' = task_status
            /\ task_result' = task_result
            /\ pc' = "poll"
            /\ Len(stack') = Len(stack)
            /\ Top'.idx = Top.idx + 1]_vars
    /\ []((pc = "wait" /\ ~AllTasksCompleted(task_status)) => ENABLED WaitPoll)

\* A pass in which the requests for the first task failed has gone on to the
\* second task and completed it.
C26_Witness ==
    /\ pc = "poll" /\ Len(tasks) = 2
    /\ 1 \in unanswered /\ 2 \notin unanswered
    /\ task_status[1] = "in_progress" /\ HasResult(tasks[1].agent, 1)
    /\ task_status[2] = "completed" /\ task_result[2] # NoResult

\* The wait is back at its loop after a pass with a failed request.
C26_PollsAgain ==
    /\ pc = "wait" /\ unanswered # {}
    /\ \E i \in unanswered : task_status[i] = "in_progress"
    /\ ENABLED WaitPoll

----------------------------------------------------------------------------
(* C27 *)

\* C27: when a worker does not get ready in time, orchestrate submits no task,
\* goes from the timeout straight to its cleanup and raises; it has then
\* terminated every process spawned so far, the one of the worker that timed
\* out included, and emptied the agent registry and the process table.
C27_ReadinessTimeoutCleansUp ==
    /\ [](pc \in {"except", "raised"} =>
            /\ \A i \in Ids(tasks) : posted[i] = 0
            /\ task_status = << >> /\ request = NoRequest /\ executing = {})
    /\ [](pc = "raised" =>
            /\ \A p \in DOMAIN processes : processes[p] = "terminated"
            /\ agents = << >>
            /\ agent_processes = << >>)
    /\ [][pc = "except" => pc' = "raised"]_vars

\* The second worker timed out after the first one had got ready.
C27_Witness ==
    /\ pc = "raised"
    /\ DOMAIN processes = {"developer", "qa"}
    /\ tasks # << >>

----------------------------------------------------------------------------
(* C28 *)

\* Where orchestrate registers the workers or cleans them up.
RegistrationOrCleanup == pc \in {"spawn", "wait_ready", "done", "except"}

\* C28 as claimed: the agent registry is written only when the workers are
\* registered and at cleanup; the assignment of the tasks, the completion
\* polling and the monitoring loop leave every record as it is.
C28_RegistryWrittenAtSpawnAndCleanup ==
    [][agents' # agents => RegistrationOrCleanup]_vars

\* C28 as amended: records are added to the registry only at registration
\* and removed only at cleanup; the assignment of the tasks and the
\* completion polling leave every record as it is, and the monitoring loop
\* writes nothing but the status field of the records there are.
C28_RegistryKeysWrittenAtSpawnAndCleanup ==
    [][agents' # agents =>
          \/ RegistrationOrCleanup
          \/ pc = "monitor" /\ DOMAIN agents' = DOMAIN agents]_vars

\* The monitoring loop has written a worker's reported status into its record.
C28_Witness ==
    /\ pc = "monitor"
    /\ DOMAIN agents = {"developer", "qa"}
    /\ agents["developer"] = "error" /\ agents["qa"] = "idle"

----------------------------------------------------------------------------
(* C29 *)

\* The tasks whose tracked status is s, a task without an entry being not_started.
TasksWithStatus(ts, st, s) ==
    { i \in Ids(ts) : (IF i \in DOMAIN st THEN st[i] ELSE "not_started") = s }

\* Is sm the summary the claim describes for the tasks ts with the statuses st
SummaryCounts(sm, ts, st) ==
    /\ sm.total_tasks = Len(ts)
    /\ Len(sm.tasks) = Len(ts)
    /\ \A i \in Ids(ts) : sm.tasks[i].id = i /\ sm.tasks[i].title = ts[i].title
    /\ sm.completed = Cardinality(TasksWithStatus(ts, st, "completed"))
    /\ sm.in_progress = Cardinality(TasksWithStatus(ts, st, "in_progress"))
    /\ sm.not_started = Cardinality(TasksWithStatus(ts, st, "not_started"))
    /\ sm.failed = Cardinality(TasksWithStatus(ts, st, "failed"))

\* The status map of test_get_task_status_summary, and one with failed tasks.
TestSummaryStatus == << "completed", "in_progress", "not_started" >>
FailedStatus == << "failed", "assigned", "failed" >>

\* C29: get_task_status_summary reports total_tasks as the number of tasks,
\* one entry per task in the order of the graph, and for completed,
\* in_progress, not_started and failed the number of tasks with that tracked
\* status, a task without a status entry counting as not_started. The test's
\* case gives 3 tasks and the counts 1, 1, 1, 0.
C29_SummaryCounts ==
    /\ SummaryCounts(GetTaskStatusSummary(tasks, task_status, task_result),
                     tasks, task_status)
    /\ LET sm == GetTaskStatusSummary(ScenarioA, TestSummaryStatus,
                                      << <<"Done">>, << >>, << >> >>)
       IN /\ sm.total_tasks = 3 /\ Len(sm.tasks) = 3
          /\ << sm.completed, sm.in_progress, sm.not_started, sm.failed >>
                 = << 1, 1, 1, 0 >>
    /\ LET sm == GetTaskStatusSummary(ScenarioA, FailedStatus,
                                      << << >>, << >>, << >> >>)
       IN /\ SummaryCounts(sm, ScenarioA, FailedStatus)
          /\ sm.failed = 2 /\ sm.not_started = 0

\* A session suspended in a request, with a completed task, an assigned task
\* and a task that is not started.
C29_Witness ==
    /\ pc = "await_post" /\ Len(tasks) = 3
    /\ \E i, j, k \in Ids(tasks) :
          /\ StatusGet(task_status, i) = "completed"
          /\ StatusGet(task_status, j) = "assigned"
          /\ StatusGet(task_status, k) = "not_started"
    /\ LET sm == GetTaskStatusSummary(tasks, task_status, task_result)
       IN << sm.completed, sm.in_progress, sm.not_started, sm.failed >>
              = << 1, 0, 1, 0 >>

\* The same with a task that has no status entry.
C29_UntrackedCounted ==
    /\ pc = "await_post" /\ Len(tasks) = 2
    /\ \E k \in Ids(tasks) : k \notin DOMAIN task_status
    /\ GetTaskStatusSummary(tasks, task_status, task_result).not_started = 2

----------------------------------------------------------------------------
(* C30 *)

\* What the claim has a Dependencies field parse to: its titles, and nothing
\* for a missing field or the literal none.
ExpectedDependencies(field) ==
    IF field = << >> \/ field = << << << "none" >> >> >> THEN << >> ELSE field[1]

\* C30: a task line whose metadata holds "Dependencies: t1, t2, ..., tk" is
\* parsed into a task with the dependencies t1, ..., tk in that order, and a
\* line without the field, or with the literal none, into a task without
\* dependencies; every line gives a task.
C30_DependenciesParsed ==
    pc = "start" =>
        /\ Len(tasks) = Len(content)
        /\ \A i \in 1..Len(content) :
              \A p \in DOMAIN Numbers, a \in Registered, f \in DepFields :
                  content[i].metadata = Metadata(p, a, f) =>
                      /\ tasks[i].dependencies = ExpectedDependencies(f)
                      /\ tasks[i].priority = Numbers[p]
                      /\ tasks[i].agent = a

----------------------------------------------------------------------------
(* C31 *)

\* The place of the title t in the sequence s of distinct titles.
IndexIn(s, t) == CHOOSE k \in 1..Len(s) : s[k] = t

\* The list index at which the title t occurs first.
FirstIndex(ts, t) == Min({ i \in Ids(ts) : ts[i].title = t })

\* C31: in every iteration of sort_tasks_by_dependencies the task taken from
\* the ready queue has the least priority number of the queue, and of the
\* queued tasks of that priority it is the one that entered the queue first;
\* the tasks ready at the start enter in the order of the task list.
C31_ReadyQueueDiscipline ==
    /\ [][(pc = "kahn" /\ stack' # stack /\ pc' = "kahn") =>
            LET q == stack[1].queue
                in == stack[1].entered
                r == tasks[stack'[1].sorted[Len(stack'[1].sorted)]].title
            IN /\ Len(stack'[1].sorted) = Len(stack[1].sorted) + 1
               /\ \E k \in 1..Len(q) : q[k] = r
               /\ \A k \in 1..Len(q) :
                     /\ tasks[TaskMap(tasks, r)].priority
                            <= tasks[TaskMap(tasks, q[k])].priority
                     /\ ( /\ q[k] # r
                          /\ tasks[TaskMap(tasks, q[k])].priority
                                 = tasks[TaskMap(tasks, r)].priority )
                        => IndexIn(in, r) < IndexIn(in, q[k])]_vars
    /\ [][(pc = "start" /\ pc' = "kahn") =>
            \A a, b \in 1..Len(stack'[1].entered) :
                a < b => FirstIndex(tasks, stack'[1].entered[a])
                             < FirstIndex(tasks, stack'[1].entered[b])]_vars
    /\ [](pc = "sorted" => sorted_tasks = SortTasksByDependencies(tasks))

\* Two titles of equal priority were ready together; the one that had entered
\* the queue first has been taken, the other is still queued.
C31_Witness ==
    /\ pc = "kahn" /\ Len(stack[1].sorted) = 2 /\ stack[1].queue # << >>
    /\ LET r == tasks[stack[1].sorted[2]].title
           t == stack[1].queue[1]
       IN /\ tasks[TaskMap(tasks, r)].priority = tasks[TaskMap(tasks, t)].priority
          /\ IndexIn(stack[1].entered, r) < IndexIn(stack[1].entered, t)
          /\ IndexIn(stack[1].entered, t) <= 2

----------------------------------------------------------------------------
(* C32 *)

\* C32: in a session every task is submitted (POST /task) at most once, the
\* submissions of the top-level pass of assign_tasks and of the cascade
\* counted together. (Stated for the sessions in which every submission was
\* answered 200 completed.)
C32_SubmittedAtMostOnce ==
    faults = 0 => \A i \in Ids(tasks) : posted[i] <= 1

----------------------------------------------------------------------------
(* C33 *)

\* The log of the owner of task i holds a completed entry of the task whose
\* outcome is the task's result.
ResultIsLogged(i) ==
    /\ tasks[i].agent \in Registered
    /\ \E k \in 1..Len(task_results[tasks[i].agent]) :
          LET entry == task_results[tasks[i].agent][k]
          IN /\ entry.task = i /\ entry.status = "completed"
             /\ entry.result = task_result[i]

\* C33: whenever the tracked status of a task is completed, the result log of
\* its owner holds an entry of that task with the status completed, and the
\* task's result is the outcome of that entry.
C33_CompletedIsLogged ==
    \A i \in DOMAIN task_status : task_status[i] = "completed" => ResultIsLogged(i)

\* A task that was executed twice is completed with the second outcome.
C33_Witness ==
    \E i \in DOMAIN task_status :
        /\ task_status[i] = "completed" /\ posted[i] = 2
        /\ Len(task_results[tasks[i].agent]) = 2
        /\ \A k \in 1..2 : task_results[tasks[i].agent][k].task = i
        /\ task_result[i] = task_results[tasks[i].agent][2].result

----------------------------------------------------------------------------
(* C34 *)

\* C34: the tracked status of a task differs from not_started only if a
\* submission request for the task was sent to its owner; a task whose owner
\* is not in the agent registry stays not_started.
C34_StatusNeedsSubmission ==
    \A i \in DOMAIN task_status :
        /\ task_status[i] # "not_started" => posted[i] > 0
        /\ tasks[i].agent \notin Registered => task_status[i] = "not_started"

----------------------------------------------------------------------------
(* C35 *)

\* C35: whenever all_tasks_completed() is true, every task of the task graph
\* (self.tasks), tracked or not, has been executed by its worker and has the
\* status completed.
C35_CompletionCoversGraph ==
    (pc # "start" /\ AllTasksCompleted(task_status)) =>
        \A i \in Ids(tasks) : StatusGet(task_status, i) = "completed" /\ Executed(i)

----------------------------------------------------------------------------
(* C36 *)

\* assign_tasks has not returned to its caller yet.
AssignPhase == {"start", "loop", "sent", "await_post"}

\* The send_task_to_agent calls that stand in a re-scan they started.
CascadeDepth == Cardinality({ k \in 1..Len(stack) : stack[k].fn = "cascade" })

\* C36: assign_tasks terminates when every worker request returns, and the
\* mutual recursion of send_task_to_agent and check_and_assign_waiting_tasks
\* is never deeper than the number of tasks: a re-scan sends only tasks that
\* are not_started, and a task that was sent is not_started no more.
C36_AssignTasksTerminates ==
    /\ [](CascadeDepth <= Len(tasks))
    /\ [][pc = "loop" /\ pc' = "await_post" /\ Top.fn = "cascade"
            => StatusGet(task_status, CurTask) = "not_started"]_vars
    /\ <>(pc \notin AssignPhase)

\* Three tasks, each completed inside the re-scan of the one before.
C36_Witness ==
    /\ Len(tasks) = 3 /\ CascadeDepth = Len(tasks)
    /\ pc = "loop" /\ faults = 0

----------------------------------------------------------------------------
(* C37 *)

\* s holds every task of ts exactly once and nothing else.
IsPermutation(ts, s) ==
    /\ Len(s) = Len(ts)
    /\ \A i \in Ids(ts) : Cardinality({ k \in 1..Len(s) : s[k] = i }) = 1

\* C37: for a task list with pairwise distinct titles and no dependency cycle
\* sort_tasks_by_dependencies returns a permutation of the task list, so every
\* task gets a status entry in assign_tasks.
C37_SortIsPermutation ==
    (pc # "start" /\ tasks # << >> /\ UniqueTitles(tasks) /\ ~HasCycle(tasks)) =>
        /\ IsPermutation(tasks, sorted_tasks)
        /\ DOMAIN task_status = Ids(tasks)

\* Three tasks of distinct titles, listed against their dependencies, tracked.
C37_Witness ==
    /\ pc = "loop" /\ Len(tasks) = 3 /\ UniqueTitles(tasks) /\ ~HasCycle(tasks)
    /\ sorted_tasks # << 1, 2, 3 >>
    /\ \E i \in Ids(tasks) : tasks[i].dependencies # << >>
    /\ DOMAIN task_status = {1, 2, 3}

----------------------------------------------------------------------------
(* C38 *)

\* C38: the four counts of get_task_status_summary add up to total_tasks:
\* every task of the graph is counted in exactly one of completed, in_progress,
\* not_started and failed.
C38_CountsAddUp ==
    LET summary == GetTaskStatusSummary(tasks, task_status, task_result)
    IN summary.completed + summary.in_progress + summary.not_started
         + summary.failed = summary.total_tasks

====
